---- MODULE Spec2Model ----
(***************************************************************************)
(* A model of razmans/file-compressor (src/index.ts): five asynchronous    *)
(* operations that build a shell command for Ghostscript, ImageMagick or   *)
(* FFmpeg, run it with child_process.exec, stat the output file and return *)
(* {outputPath, compressedSizeKB}.                                         *)
(*                                                                         *)
(* Paths, commands and error messages are strings and are built character  *)
(* for character as the template literals of the source build them.  A JS  *)
(* value that may be undefined is a sequence of length 0 (undefined) or 1. *)
(***************************************************************************)
EXTENDS Integers, Sequences, FiniteSets, TLC

VARIABLES call, files, log

vars == <<call, files, log>>

(***************************************************************************)
(* Bounds of the model.                                                    *)
(***************************************************************************)
\* An output file holds k * 512 bytes, k in 0..MaxBlocks.
MaxBlocks == 3

(***************************************************************************)
(* Strings.                                                                *)
(***************************************************************************)
CharAt(s, i) == SubSeq(s, i, i)

UpperChars == "ABCDEFGHIJKLMNOPQRSTUVWXYZ"

LowerChars == "abcdefghijklmnopqrstuvwxyz"

\* String.prototype.toLowerCase on one ASCII character.
LowerChar(ch) ==
  IF \E i \in 1..Len(UpperChars) : CharAt(UpperChars, i) = ch
  THEN CharAt(LowerChars, CHOOSE i \in 1..Len(UpperChars) : CharAt(UpperChars, i) = ch)
  ELSE ch

RECURSIVE LowerFrom(_, _)
LowerFrom(s, i) ==
  IF i > Len(s) THEN "" ELSE LowerChar(CharAt(s, i)) \o LowerFrom(s, i + 1)

\* String.prototype.toLowerCase
toLowerCase(s) == LowerFrom(s, 1)

\* String.prototype.endsWith
endsWith(s, suffix) ==
  /\ Len(suffix) <= Len(s)
  /\ SubSeq(s, Len(s) - Len(suffix) + 1, Len(s)) = suffix

Digits == "0123456789"

RECURSIVE NatStr(_)
NatStr(n) ==
  IF n < 10 THEN CharAt(Digits, n + 1)
  ELSE NatStr(n \div 10) \o CharAt(Digits, (n % 10) + 1)

\* An integer interpolated into a template literal: Number.prototype.toString.
NumStr(n) == IF n < 0 THEN "-" \o NatStr(0 - n) ELSE NatStr(n)

\* JS undefined and a defined value.
None == <<>>

Some(v) == <<v>>

\* JS truthiness of an optional number (0 and undefined are falsy).
TruthyNum(x) == x # None /\ x[1] # 0

\* JS truthiness of an optional string ('' and undefined are falsy).
TruthyStr(x) == x # None /\ x[1] # ""

\* JS truthiness of an optional boolean.
TruthyBool(x) == x # None /\ x[1]

(***************************************************************************)
(* path.resolve and path.dirname (POSIX).                                  *)
(***************************************************************************)
\* process.cwd()
Cwd == "/w"

\* The segments of a path between its slashes, from position i on.
RECURSIVE SplitPath(_, _, _, _)
SplitPath(s, i, cur, acc) ==
  IF i > Len(s) THEN Append(acc, cur)
  ELSE IF CharAt(s, i) = "/" THEN SplitPath(s, i + 1, "", Append(acc, cur))
  ELSE SplitPath(s, i + 1, cur \o CharAt(s, i), acc)

\* normalizeString: "" and "." are dropped, ".." removes the segment before it.
RECURSIVE NormalizeSegs(_, _, _)
NormalizeSegs(segs, i, acc) ==
  IF i > Len(segs) THEN acc
  ELSE IF segs[i] = "" \/ segs[i] = "." THEN NormalizeSegs(segs, i + 1, acc)
  ELSE IF segs[i] = ".."
    THEN NormalizeSegs(segs, i + 1,
                       IF Len(acc) = 0 THEN acc ELSE SubSeq(acc, 1, Len(acc) - 1))
  ELSE NormalizeSegs(segs, i + 1, Append(acc, segs[i]))

RECURSIVE JoinSegs(_, _)
JoinSegs(segs, i) ==
  IF i > Len(segs) THEN "" ELSE "/" \o segs[i] \o JoinSegs(segs, i + 1)

\* path.resolve(p): an absolute path is normalised, a relative one is taken
\* from the working directory.
resolve(p) ==
  LET full == IF Len(p) > 0 /\ CharAt(p, 1) = "/" THEN p ELSE Cwd \o "/" \o p
      segs == NormalizeSegs(SplitPath(full, 1, "", <<>>), 1, <<>>)
  IN  IF Len(segs) = 0 THEN "/" ELSE JoinSegs(segs, 1)

\* path.dirname of a resolved path.
dirname(p) ==
  LET segs == NormalizeSegs(SplitPath(p, 1, "", <<>>), 1, <<>>)
  IN  IF Len(segs) <= 1 THEN "/" ELSE JoinSegs(SubSeq(segs, 1, Len(segs) - 1), 1)

(***************************************************************************)
(* The shell: /bin/sh -c splits the command string into the words the tool *)
(* receives.  Blanks and newlines separate words outside double quotes;    *)
(* double quotes group and are removed.                                    *)
(***************************************************************************)
IsBlank(ch) == ch = " " \/ ch = "\n" \/ ch = "\t"

\* The state of the scan: the words read so far, the word being read, whether
\* it is a word yet (an empty quoted string is one), inside double quotes.
ScanStart == [acc |-> <<>>, cur |-> "", has |-> FALSE, inq |-> FALSE]

ScanChar(st, ch) ==
  IF ch = "\"" THEN [st EXCEPT !.has = TRUE, !.inq = ~st.inq]
  ELSE IF st.inq \/ ~IsBlank(ch) THEN [st EXCEPT !.cur = st.cur \o ch, !.has = TRUE]
  ELSE [acc |-> IF st.has THEN Append(st.acc, st.cur) ELSE st.acc,
        cur |-> "", has |-> FALSE, inq |-> FALSE]

\* The scan of s[lo..hi] from left to right, split in halves to keep the
\* evaluation shallow.  (v \in {st} makes TLC evaluate the state handed in
\* once, before the scan goes on from it.)
RECURSIVE Scan(_, _, _, _)
Scan(s, lo, hi, st) ==
  LET mid == (lo + hi) \div 2
  IN  CHOOSE r \in {IF lo > hi THEN v
                    ELSE IF lo = hi THEN ScanChar(v, CharAt(s, lo))
                    ELSE Scan(s, mid + 1, hi, Scan(s, lo, mid, v)) : v \in {st}} : TRUE

\* The argument vector of the process that exec(command) starts.  Of the
\* grammar of /bin/sh this has the blanks between words and the double
\* quotes; expansions and the backslash are left out, so a path can leave its
\* quotes in more ways than this shows.
ShellSplit(command) ==
  CHOOSE argv \in {IF st.has THEN Append(st.acc, st.cur) ELSE st.acc :
                     st \in {Scan(s, 1, Len(s), ScanStart) : s \in {command}}} : TRUE

(***************************************************************************)
(* Enumerations (src/index.ts, 379-426).                                   *)
(***************************************************************************)
LIBX264 == "libx264"

LIBX265 == "libx265"

VP9 == "vp9"

GIF == "gif"

SupportedCodecs == {LIBX264, LIBX265, VP9, GIF}

SoundBitRate == {"64k", "128k", "192k", "320k"}

MEDIUM == "medium"

VideoPresets ==
  {"ultrafast", "superfast", "veryfast", "faster", "fast", MEDIUM, "slow", "slower",
   "veryslow"}

(***************************************************************************)
(* Validation.                                                             *)
(***************************************************************************)
\* A plausible slip: the regular expression without its i flag.
supportedFormatsCaseSensitive(p) ==
  endsWith(p, ".jpg") \/ endsWith(p, ".jpeg") \/ endsWith(p, ".png")

\* /\.(jpg|jpeg|png)$/i.test(p)
supportedFormats(p) ==
  LET q == toLowerCase(p)
  IN  endsWith(q, ".jpg") \/ endsWith(q, ".jpeg") \/ endsWith(q, ".png")

\* A plausible slip: the extension looked for anywhere in the path.
isMP3Anywhere(p) ==
  \E i \in 1..Len(p) : endsWith(SubSeq(toLowerCase(p), 1, i), ".mp3")

\* resolvedInputPath.toLowerCase().endsWith('.mp3')
isMP3(p) == endsWith(toLowerCase(p), ".mp3")

UnsupportedFormat == "Unsupported file format. Use JPG, JPEG, or PNG."

NotMP3 == "Input file must be an MP3."

UnsupportedCodec == "Unsupported codec"

\* The rejection of fs.access(path, mode) in the environment env.
AccessError(env, path) ==
  IF env.inExists
  THEN "EACCES: permission denied, access '" \o path \o "'"
  ELSE "ENOENT: no such file or directory, access '" \o path \o "'"

\* The rejection of fs.access(outputDir, W_OK).
AccessDirError(path) == "EACCES: permission denied, access '" \o path \o "'"

\* The rejection of fs.stat(path) of a file that is not there.
StatError(path) == "ENOENT: no such file or directory, stat '" \o path \o "'"

\* The rejection of execPromise(command): the process exited non-zero ...
ExecError(command) == "Command failed: " \o command

\* ... or could not be started.
SpawnError == "spawn /bin/sh EAGAIN"

(***************************************************************************)
(* Command synthesis.                                                      *)
(***************************************************************************)
\* A parameter with a default value: 'quality: number = 75'.
DefaultQuality == 75

qualityOrDefault(q) == IF q = None THEN DefaultQuality ELSE q[1]

\* 'options = {}': an absent options object has no field.
NoVideoOptions == [codec |-> None, crf |-> None, preset |-> None, fps |-> None, scale |-> None]

NoMP3Options == [bitrate |-> None, quality |-> None, mono |-> None]

gsCommand(rin, rout) ==
  "gs -sDEVICE=pdfwrite -dCompatibilityLevel=1.4 -dPDFSETTINGS=/screen -dNOPAUSE -dQUIET -dBATCH -sOutputFile=\""
    \o rout \o "\" \"" \o rin \o "\""

magickCommandLossy(rin, rout, quality) ==
  "magick \"" \o rin \o "\" -quality " \o NumStr(quality) \o " -strip \"" \o rout \o "\""

magickCommandLossless(rin, rout, compressionLevel) ==
  "magick \"" \o rin \o "\" -strip -define png:compression-level="
    \o NumStr(compressionLevel) \o " \"" \o rout \o "\""

\* options.codec || SupportedCodecs.LIBX264
videoCodec(options) ==
  IF TruthyStr(options.codec) THEN options.codec[1] ELSE LIBX264

CrfDefault == 28

CrfDefaultVP9 == 30

\* A plausible slip: one default for every codec.
videoCrfOneDefault(options, codec) ==
  IF options.crf # None THEN options.crf[1] ELSE CrfDefault

\* options.crf ?? (codec === SupportedCodecs.VP9 ? 30 : 28)
videoCrf(options, codec) ==
  IF options.crf # None THEN options.crf[1]
  ELSE IF codec = VP9 THEN CrfDefaultVP9 ELSE CrfDefault

\* options.preset || VideoPresets.MEDIUM
videoPreset(options) ==
  IF TruthyStr(options.preset) THEN options.preset[1] ELSE MEDIUM

\* options.fps ? '-r ${options.fps}' : ''
videoFps(options) ==
  IF TruthyNum(options.fps) THEN "-r " \o NumStr(options.fps[1]) ELSE ""

MissingDimension == -1

\* options.scale.width || -1
dimension(d) == IF TruthyNum(d) THEN d[1] ELSE MissingDimension

\* options.scale ? '-vf scale=${width || -1}:${height || -1}' : ''
videoScale(options) ==
  IF options.scale # None
  THEN "-vf scale=" \o NumStr(dimension(options.scale[1].width)) \o ":"
         \o NumStr(dimension(options.scale[1].height))
  ELSE ""

\* The three templates of compressVideo; a backslash before a line break in
\* a template literal continues the line, the indentation stays.
ffmpegCommandMP4(rin, rout, codec, crf, preset, fps, scale) ==
  "\n        ffmpeg -i \"" \o rin \o "\" "
    \o "        -c:v " \o codec \o " -crf " \o NumStr(crf) \o " -preset " \o preset \o " "
    \o "        -c:a aac -b:a 128k "
    \o "        " \o fps \o " " \o scale \o " "
    \o "        -movflags +faststart "
    \o "        \"" \o rout \o "\"\n      "

ffmpegCommandVP9(rin, rout, crf, fps, scale) ==
  "\n        ffmpeg -i \"" \o rin \o "\" "
    \o "        -c:v libvpx-vp9 -crf " \o NumStr(crf) \o " -b:v 0 "
    \o "        -c:a libopus -b:a 128k "
    \o "        " \o fps \o " " \o scale \o " "
    \o "        \"" \o rout \o "\"\n      "

ffmpegCommandGIF(rin, rout) ==
  "\n        ffmpeg -i \"" \o rin \o "\" "
    \o "        -vf \"fps=15,scale=640:-1:flags=lanczos,split[s0][s1];[s0]palettegen[p];[s1][p]paletteuse\" "
    \o "        -loop 0 "
    \o "        \"" \o rout \o "\"\n      "

BitrateDefault == "128k"

QualityDefault == 4

\* options.bitrate || '128k'
mp3Bitrate(options) ==
  IF TruthyStr(options.bitrate) THEN options.bitrate[1] ELSE BitrateDefault

\* options.quality ?? 4
mp3Quality(options) ==
  IF options.quality # None THEN options.quality[1] ELSE QualityDefault

\* options.mono ? '-ac 1' : ''
mp3Mono(options) == IF TruthyBool(options.mono) THEN "-ac 1" ELSE ""

\* A plausible slip: both rate flags written.
mp3RateBoth(options) ==
  "-b:a " \o mp3Bitrate(options) \o " -q:a " \o NumStr(mp3Quality(options))

\* options.bitrate ? '-b:a ${bitrate}' : '-q:a ${quality}'
mp3Rate(options) ==
  IF TruthyStr(options.bitrate)
  THEN "-b:a " \o mp3Bitrate(options)
  ELSE "-q:a " \o NumStr(mp3Quality(options))

ffmpegCommandMP3(rin, rout, options) ==
  "ffmpeg -i \"" \o rin \o "\" -c:a libmp3lame " \o mp3Rate(options) \o " "
    \o mp3Mono(options) \o " -y \"" \o rout \o "\""

(***************************************************************************)
(* Result assembly.                                                        *)
(***************************************************************************)
KB == 1024

\* A plausible slip: decimal kilobytes.
sizeKBDecimal(bytes) == [num |-> bytes, den |-> 1000]

\* stats.size / 1024, kept as the exact quotient num/den.
sizeKB(bytes) == [num |-> bytes, den |-> KB]

\* outputPath: resolvedOutputPath
resultPath(r) == r.rout

(***************************************************************************)
(* The state of a call and of the file system.                             *)
(*   call[c].pc: "idle", then the await the call is suspended at           *)
(*   ("accessIn", "accessOut", "exec", "stat"), then "resolved" or         *)
(*   "rejected".                                                           *)
(*   files[p]: None when no file is at p, else Some(its size in bytes).    *)
(*   log: what has happened outside the calls, in the order it happened:   *)
(*   the start of a process, its end and what it wrote, the stat of a call.*)
(***************************************************************************)
Calls == {1}

Absent == None

Sizes == {k * 512 : k \in 0..MaxBlocks}

Ops == {"compressPDF", "compressImageLossy", "compressImageLossless", "compressVideo",
        "compressMP3"}

ImageOps == {"compressImageLossy", "compressImageLossless"}

\* The file system as the call finds it: the input exists, is readable, the
\* directory of the output can be written to.
Envs ==
  {e \in [inExists : BOOLEAN, inReadable : BOOLEAN, outDirWritable : BOOLEAN] :
     e.inReadable => e.inExists}

EnvOK == [inExists |-> TRUE, inReadable |-> TRUE, outDirWritable |-> TRUE]

IdleCall ==
  [pc |-> "idle", op |-> "", inputPath |-> "", outputPath |-> "", quality |-> None,
   options |-> None, env |-> EnvOK, rin |-> "", rout |-> "", command |-> "",
   argv |-> <<>>, spawned |-> 0, exit |-> None, result |-> None, error |-> None]

\* throw: the promise of the call is rejected with the message.
Reject(r, message) == [r EXCEPT !.pc = "rejected", !.error = Some(message)]

\* execPromise(command): /bin/sh -c command is started, the call awaits it.
Exec(r, command) ==
  [r EXCEPT !.pc = "exec", !.command = command, !.argv = ShellSplit(command),
            !.spawned = @ + 1]

\* The catch blocks: what the caller sees of an error thrown inside try.
Wrap(op, stage, message) ==
  CASE op = "compressVideo" -> "Video compression failed: " \o message
    [] op = "compressMP3" -> "MP3 compression failed: " \o message
    [] op \in ImageOps /\ stage = "exec" -> "Failed to compress image: " \o message
    [] OTHER -> message

\* A plausible slip: the GIF command takes the frame rate of the options.
SynthesizeVideoGifFps(r) ==
  LET options == IF r.options = None THEN NoVideoOptions ELSE r.options[1]
      codec == videoCodec(options)
      crf == videoCrf(options, codec)
      preset == videoPreset(options)
      fps == videoFps(options)
      scale == videoScale(options)
  IN  IF codec = LIBX264 \/ codec = LIBX265
        THEN Exec(r, ffmpegCommandMP4(r.rin, r.rout, codec, crf, preset, fps, scale))
      ELSE IF codec = VP9
        THEN Exec(r, ffmpegCommandVP9(r.rin, r.rout, crf, fps, scale))
      ELSE IF codec = GIF
        THEN Exec(r, ffmpegCommandGIF(r.rin, r.rout) \o " " \o fps)
      ELSE Reject(r, Wrap(r.op, "synthesize", UnsupportedCodec))

\* compressVideo from its defaults to execPromise (lines 229-277).
SynthesizeVideo(r) ==
  LET options == IF r.options = None THEN NoVideoOptions ELSE r.options[1]
      codec == videoCodec(options)
      crf == videoCrf(options, codec)
      preset == videoPreset(options)
      fps == videoFps(options)
      scale == videoScale(options)
  IN  IF codec = LIBX264 \/ codec = LIBX265
        THEN Exec(r, ffmpegCommandMP4(r.rin, r.rout, codec, crf, preset, fps, scale))
      ELSE IF codec = VP9
        THEN Exec(r, ffmpegCommandVP9(r.rin, r.rout, crf, fps, scale))
      ELSE IF codec = GIF
        THEN Exec(r, ffmpegCommandGIF(r.rin, r.rout))
      ELSE Reject(r, Wrap(r.op, "synthesize", UnsupportedCodec))

\* compressMP3 from its extension check to execPromise (lines 323-338).
SynthesizeMP3(r) ==
  LET options == IF r.options = None THEN NoMP3Options ELSE r.options[1]
  IN  IF ~isMP3(r.rin) THEN Reject(r, NotMP3)
      ELSE Exec(r, ffmpegCommandMP3(r.rin, r.rout, options))

\* The image operations from their command to execPromise (lines 92-97, 162-167).
SynthesizeImage(r) ==
  IF r.op = "compressImageLossy"
  THEN Exec(r, magickCommandLossy(r.rin, r.rout, qualityOrDefault(r.quality)))
  ELSE Exec(r, magickCommandLossless(r.rin, r.rout, qualityOrDefault(r.quality)))

\* A call runs from its first statement to its first await.
Begin(r) ==
  CASE r.op = "compressPDF" -> Exec(r, gsCommand(r.rin, r.rout))
    [] r.op \in ImageOps ->
         IF ~supportedFormats(r.rin) THEN Reject(r, UnsupportedFormat)
         ELSE [r EXCEPT !.pc = "accessIn"]
    [] OTHER -> [r EXCEPT !.pc = "accessIn"]

\* fs.access of the input has settled: R_OK for the images, F_OK for video and MP3.
AfterAccessIn(r) ==
  IF r.op \in ImageOps
  THEN IF ~r.env.inReadable THEN Reject(r, AccessError(r.env, r.rin))
       ELSE [r EXCEPT !.pc = "accessOut"]
  ELSE IF ~r.env.inExists THEN Reject(r, AccessError(r.env, r.rin))
  ELSE IF r.op = "compressVideo" THEN SynthesizeVideo(r)
  ELSE SynthesizeMP3(r)

\* A plausible slip: the directory of the output is not looked at.
AfterAccessOutUnchecked(r) == SynthesizeImage(r)

\* fs.access(outputDir, W_OK) has settled (images only).
AfterAccessOut(r) ==
  IF ~r.env.outDirWritable THEN Reject(r, AccessDirError(dirname(r.rout)))
  ELSE SynthesizeImage(r)

\* A plausible slip: the failure of the process is swallowed and the promise
\* of the call is left pending.
AfterExecLost(r, status) ==
  LET done == [r EXCEPT !.exit = Some(status)]
  IN  IF status = "0" THEN [done EXCEPT !.pc = "stat"]
      ELSE [done EXCEPT !.pc = "pending"]

\* A plausible addition: a command that failed is run once more.
AfterExecRetry(r, status) ==
  LET done == [r EXCEPT !.exit = Some(status)]
  IN  IF status = "0" THEN [done EXCEPT !.pc = "stat"]
      ELSE IF r.spawned < 2 THEN Exec(r, r.command)
      ELSE Reject(done, Wrap(r.op, "exec", ExecError(r.command)))

\* A plausible slip: the outcome of the process is not looked at.
AfterExecIgnoreStatus(r, status) == [r EXCEPT !.exit = Some(status), !.pc = "stat"]

\* execPromise has settled: resolved on exit status 0, rejected otherwise.
AfterExec(r, status) ==
  LET done == [r EXCEPT !.exit = Some(status)]
  IN  IF status = "0" THEN [done EXCEPT !.pc = "stat"]
      ELSE IF status = "spawn" THEN Reject(done, Wrap(r.op, "exec", SpawnError))
      ELSE Reject(done, Wrap(r.op, "exec", ExecError(r.command)))

\* fs.stat(resolvedOutputPath) has settled.
AfterStat(r, stats) ==
  IF stats = Absent THEN Reject(r, Wrap(r.op, "stat", StatError(r.rout)))
  ELSE [r EXCEPT !.pc = "resolved",
                 !.result = Some([outputPath |-> resultPath(r),
                                  compressedSizeKB |-> sizeKB(stats[1])])]

(***************************************************************************)
(* The inputs of the calls.                                                *)
(***************************************************************************)
InputPaths ==
  {"input.pdf", "pic.JPG", "a/../photo.jpeg", "/in/x.PnG", "anim.gif", "xjpg",
   "/in/my song.Mp3", "input.mp4", "song.mp3.bak"}

OutputPaths == {"out/r.bin", "/o/./x y.mp4"}

\* What path.resolve makes of the paths above with the working directory /w,
\* written out by hand.
ExpectedResolved(p) ==
  CASE p = "input.pdf" -> "/w/input.pdf"
    [] p = "pic.JPG" -> "/w/pic.JPG"
    [] p = "a/../photo.jpeg" -> "/w/photo.jpeg"
    [] p = "/in/x.PnG" -> "/in/x.PnG"
    [] p = "anim.gif" -> "/w/anim.gif"
    [] p = "xjpg" -> "/w/xjpg"
    [] p = "/in/my song.Mp3" -> "/in/my song.Mp3"
    [] p = "input.mp4" -> "/w/input.mp4"
    [] p = "song.mp3.bak" -> "/w/song.mp3.bak"
    [] p = "out/r.bin" -> "/w/out/r.bin"
    [] p = "/o/./x y.mp4" -> "/o/x y.mp4"

Qualities == {None, Some(0), Some(30), Some(100)}

Optional(S) == {None} \cup {Some(v) : v \in S}

Scales ==
  Optional([width : Optional({0, 1280}), height : Optional({720})])

\* Codec values a caller can pass: the enumeration, '' and a name outside it.
CodecValues == SupportedCodecs \cup {"", "mpeg4"}

VideoOptionsAll ==
  Optional([codec : Optional(CodecValues), crf : Optional({0, 23}),
            preset : Optional({"fast"}), fps : Optional({0, 30}), scale : Scales])

VideoOptionsFew ==
  Optional({[NoVideoOptions EXCEPT !.codec = Some(c)] : c \in CodecValues})

MP3OptionsAll ==
  Optional([bitrate : Optional(SoundBitRate), quality : Optional({0, 5}),
            mono : Optional(BOOLEAN)])

MP3OptionsFew ==
  {None, Some([NoMP3Options EXCEPT !.bitrate = Some("192k"), !.quality = Some(5)])}

Args(op, ins, outs, qualities, options, envs) ==
  [op : {op}, inputPath : ins, outputPath : outs, quality : qualities,
   options : options, env : envs]

\* Input paths with characters the shell acts on: a double quote ends the
\* quotes the command puts around the path.
ShellActivePaths(op) ==
  CASE op = "compressPDF" -> {"a\" \"b.pdf"}
    [] op \in ImageOps -> {"a\" \"b.png"}
    [] op = "compressVideo" -> {"a\" \"b.mp4"}
    [] op = "compressMP3" -> {"a\" \"b.mp3"}

\* Every path in every environment with a few options, every option with
\* one path in the environment where every check passes, and the paths with
\* shell characters in that environment.
Inputs ==
  Args("compressPDF", InputPaths, OutputPaths, {None}, {None}, Envs)
    \cup Args("compressImageLossy", InputPaths, OutputPaths, Qualities, {None}, Envs)
    \cup Args("compressImageLossless", InputPaths, OutputPaths, Qualities, {None}, Envs)
    \cup Args("compressVideo", InputPaths, OutputPaths, {None}, VideoOptionsFew, Envs)
    \cup Args("compressVideo", {"input.mp4"}, {"/o/./x y.mp4"}, {None}, VideoOptionsAll,
              {EnvOK})
    \cup Args("compressMP3", InputPaths, OutputPaths, {None}, MP3OptionsFew, Envs)
    \cup Args("compressMP3", {"/in/my song.Mp3"}, {"out/r.bin"}, {None}, MP3OptionsAll,
              {EnvOK})
    \cup UNION {Args(op, ShellActivePaths(op), {"out/r.bin"}, {None}, {None}, {EnvOK}) :
                  op \in Ops}

ResolvedOutputs == {resolve(p) : p \in OutputPaths}

(***************************************************************************)
(* Actions.                                                                *)
(***************************************************************************)
\* The caller calls an operation; the call runs to its first await.
\* Call c goes on as record r: the log gains an entry when that has made it
\* start a process.
Continue(c, r) ==
  /\ call' = [call EXCEPT ![c] = r]
  /\ log' = IF r.spawned > call[c].spawned
            THEN Append(log, [event |-> "spawn", call |-> c, path |-> r.rout,
                              written |-> None])
            ELSE log

CallWith(c, inputs) ==
  /\ call[c].pc = "idle"
  /\ \E a \in inputs :
       Continue(c, Begin([IdleCall EXCEPT !.op = a.op, !.inputPath = a.inputPath,
                                          !.outputPath = a.outputPath,
                                          !.quality = a.quality,
                                          !.options = a.options, !.env = a.env,
                                          !.rin = resolve(a.inputPath),
                                          !.rout = resolve(a.outputPath)]))
  /\ UNCHANGED files

Call(c) == CallWith(c, Inputs)

AccessInputSettles(c) ==
  /\ call[c].pc = "accessIn"
  /\ Continue(c, AfterAccessIn(call[c]))
  /\ UNCHANGED files

AccessOutputDirSettles(c) ==
  /\ call[c].pc = "accessOut"
  /\ Continue(c, AfterAccessOut(call[c]))
  /\ UNCHANGED files

\* The process ends.  What the tool did to the output file is its own affair:
\* it wrote 'written' bytes to it, or left it as it was (None).
ProcessEnds(c, status, written) ==
  /\ call[c].pc = "exec"
  /\ status = "spawn" => written = None
  /\ files' = IF written = None THEN files
              ELSE [files EXCEPT ![call[c].rout] = written]
  /\ call' = [call EXCEPT ![c] = AfterExec(@, status)]
  /\ log' = Append(log, [event |-> "exit", call |-> c, path |-> call[c].rout,
                         written |-> written])

\* A plausible misreading: the call reports what its own process wrote.
StatSettlesOwnOutput(c) ==
  /\ call[c].pc = "stat"
  /\ LET own == {i \in 1..Len(log) : /\ log[i].event = "exit"
                                     /\ log[i].call = c
                                     /\ log[i].written # None}
         stats == IF own = {} THEN files[call[c].rout]
                  ELSE log[CHOOSE i \in own : TRUE].written
     IN  call' = [call EXCEPT ![c] = AfterStat(@, stats)]
  /\ log' = Append(log, [event |-> "stat", call |-> c, path |-> call[c].rout,
                         written |-> None])
  /\ UNCHANGED files

StatSettles(c) ==
  /\ call[c].pc = "stat"
  /\ call' = [call EXCEPT ![c] = AfterStat(@, files[call[c].rout])]
  /\ log' = Append(log, [event |-> "stat", call |-> c, path |-> call[c].rout,
                         written |-> None])
  /\ UNCHANGED files

Init ==
  /\ call = [c \in Calls |-> IdleCall]
  /\ files \in [ResolvedOutputs -> {None, Some(512)}]
  /\ log = <<>>

Next ==
  \E c \in Calls :
    \/ Call(c)
    \/ AccessInputSettles(c)
    \/ AccessOutputDirSettles(c)
    \/ \E status \in {"0", "1", "spawn"}, written \in Optional(Sizes) :
         ProcessEnds(c, status, written)
    \/ StatSettles(c)

Spec == Init /\ [][Next]_vars

(***************************************************************************)
(* Two calls in flight at once.  The event loop runs one continuation at a *)
(* time, so a step is one call running from an await to its next; the      *)
(* processes and the file system calls of the two calls settle in any      *)
(* order.  The output directory starts empty.                              *)
(***************************************************************************)
ConcCalls == {1, 2}

EnvNoWrite == [inExists |-> TRUE, inReadable |-> TRUE, outDirWritable |-> FALSE]

GifOptions ==
  {Some([NoVideoOptions EXCEPT !.codec = Some(GIF)]),
   Some([codec |-> Some(GIF), crf |-> Some(23), preset |-> Some("fast"),
         fps |-> Some(30), scale |-> Some([width |-> Some(1280), height |-> Some(720)])])}

ConcInputs ==
  Args("compressPDF", {"input.pdf"}, {"out/r.bin"}, {None}, {None}, {EnvOK})
    \cup Args("compressImageLossy", {"pic.JPG"}, {"out/r.bin"}, {None}, {None},
              {EnvOK, EnvNoWrite})
    \cup Args("compressVideo", {"input.mp4"}, {"out/r.bin"}, {None},
              GifOptions \cup {None}, {EnvOK})
    \cup Args("compressMP3", {"/in/my song.Mp3"}, {"/o/./x y.mp4"}, {None}, {None},
              {EnvOK})

ConcInit ==
  /\ call = [c \in ConcCalls |-> IdleCall]
  /\ files = [p \in ResolvedOutputs |-> None]
  /\ log = <<>>

ConcNext ==
  \E c \in ConcCalls :
    \/ CallWith(c, ConcInputs)
    \/ AccessInputSettles(c)
    \/ AccessOutputDirSettles(c)
    \/ \E status \in {"0", "1", "spawn"}, written \in Optional(Sizes) :
         ProcessEnds(c, status, written)
    \/ StatSettles(c)

SpecConc == ConcInit /\ [][ConcNext]_vars

(***************************************************************************)
(* The calls under the assumption that what they await comes to an end:    *)
(* every file system call returns and every process exits.  The calls are  *)
(* those of the two-call specification, one at a time.                     *)
(***************************************************************************)
FairNext ==
  \E c \in Calls :
    \/ CallWith(c, ConcInputs)
    \/ AccessInputSettles(c)
    \/ AccessOutputDirSettles(c)
    \/ \E status \in {"0", "1", "spawn"}, written \in Optional(Sizes) :
         ProcessEnds(c, status, written)
    \/ StatSettles(c)

Fairness ==
  \A c \in Calls :
    /\ WF_vars(AccessInputSettles(c))
    /\ WF_vars(AccessOutputDirSettles(c))
    /\ WF_vars(\E status \in {"0", "1", "spawn"}, written \in Optional(Sizes) :
                 ProcessEnds(c, status, written))
    /\ WF_vars(StatSettles(c))

SpecFair == Init /\ [][FairNext]_vars /\ Fairness

(***************************************************************************)
(* What the properties below speak of.                                     *)
(***************************************************************************)
\* The extension of a path as its caller reads it: from the last dot of the
\* last segment on, in lower case; "" when that segment has no dot.
Extension(p) ==
  LET dots == {i \in 1..Len(p) : CharAt(p, i) = "."}
      slashes == {i \in 1..Len(p) : CharAt(p, i) = "/"}
      last == CHOOSE i \in dots : \A j \in dots : j <= i
  IN  IF dots = {} \/ (\E j \in slashes : j > last) THEN ""
      ELSE toLowerCase(SubSeq(p, last, Len(p)))

ImageExtensions == {".jpg", ".jpeg", ".png"}

\* The call has started a process at some time.
Spawned(c) == call[c].spawned > 0

\* The call has settled.
Settled(c) == call[c].pc \in {"resolved", "rejected"}

\* The words of argv that follow the word flag.
FlagValues(argv, flag) ==
  {argv[i + 1] : i \in {j \in 1..(Len(argv) - 1) : argv[j] = flag}}

\* How often the word flag occurs in argv.
FlagCount(argv, flag) == Cardinality({j \in 1..Len(argv) : argv[j] = flag})

\* The options object of a call, {} when the caller passed none.
VideoOptionsOf(c) == IF call[c].options = None THEN NoVideoOptions ELSE call[c].options[1]

MP3OptionsOf(c) == IF call[c].options = None THEN NoMP3Options ELSE call[c].options[1]

(***************************************************************************)
(* C1.  compressImageLossy and compressImageLossless: an input path whose  *)
(* extension is .jpg, .jpeg or .png in any case passes the format check    *)
(* (the call is never rejected as an unsupported format); with any other   *)
(* extension the call is rejected with the unsupported-format error and    *)
(* has spawned no process.                                                 *)
(***************************************************************************)
C1_ImageFormatCheck ==
  \A c \in Calls :
    call[c].op \in ImageOps =>
      IF Extension(call[c].inputPath) \in ImageExtensions
      THEN call[c].error # Some(UnsupportedFormat)
      ELSE /\ call[c].pc = "rejected"
           /\ call[c].error = Some(UnsupportedFormat)
           /\ ~Spawned(c)

\* An image call with an upper-case supported extension got past the check
\* and as far as its process.
C1_Witness ==
  \E c \in Calls :
    /\ call[c].op \in ImageOps
    /\ call[c].inputPath = "pic.JPG"
    /\ call[c].pc = "exec"

(***************************************************************************)
(* C2.  compressMP3 with an input path that does not end in .mp3 (in any   *)
(* case), whether the file exists or not: the call spawns no process,      *)
(* never resolves, and settles only by rejecting with an error.            *)
(***************************************************************************)
C2_NonMP3Rejected ==
  \A c \in Calls :
    (call[c].op = "compressMP3" /\ ~endsWith(toLowerCase(call[c].inputPath), ".mp3")) =>
      /\ ~Spawned(c)
      /\ call[c].pc \in {"accessIn", "rejected"}
      /\ call[c].pc = "rejected" => (call[c].error # None /\ call[c].result = None)

\* An existing file that is no MP3 was rejected by the extension check.
C2_Witness ==
  \E c \in Calls :
    /\ call[c].op = "compressMP3"
    /\ call[c].inputPath = "song.mp3.bak"
    /\ call[c].env.inExists
    /\ call[c].pc = "rejected"
    /\ call[c].error = Some(NotMP3)

(***************************************************************************)
(* C3.  compressVideo called with a codec value outside the four values of *)
(* the enumeration spawns no process and settles only by rejecting; once   *)
(* the input is found to exist, the error is the unsupported-codec error.  *)
(***************************************************************************)
C3_UnsupportedCodecRejected ==
  \A c \in Calls :
    (/\ call[c].op = "compressVideo"
     /\ VideoOptionsOf(c).codec # None
     /\ VideoOptionsOf(c).codec[1] \notin SupportedCodecs) =>
      /\ ~Spawned(c)
      /\ call[c].pc \in {"accessIn", "rejected"}
      /\ (call[c].pc = "rejected" /\ call[c].env.inExists) =>
           call[c].error = Some("Video compression failed: Unsupported codec")

(***************************************************************************)
(* C4.  A call of any of the five operations is resolved with a result     *)
(* only if its process exited with status 0 and the file at the output     *)
(* path was there to stat; if the process exits non-zero or cannot be      *)
(* spawned, or the stat fails, the call is rejected with an error and has  *)
(* no result.                                                              *)
(***************************************************************************)
C4_ResolvesOnlyOnSuccess ==
  \A c \in Calls :
    /\ call[c].pc = "resolved" =>
         /\ call[c].exit = Some("0")
         /\ files[call[c].rout] # None
         /\ call[c].result # None
         /\ call[c].error = None
    /\ (call[c].exit # None /\ call[c].exit # Some("0")) =>
         call[c].pc = "rejected"
    /\ (call[c].exit = Some("0") /\ files[call[c].rout] = None) =>
         call[c].pc \in {"stat", "rejected"}
    /\ call[c].pc = "rejected" => (call[c].result = None /\ call[c].error # None)

\* The process exited with status 0 and left no output file: the stat failed
\* and the call was rejected.
C4_Witness ==
  \E c \in Calls :
    /\ call[c].exit = Some("0")
    /\ files[call[c].rout] = None
    /\ call[c].pc = "rejected"
    /\ call[c].result = None

(***************************************************************************)
(* C5.  A resolved call returns as outputPath the absolute form of the     *)
(* output path its caller gave, and as compressedSizeKB the size in bytes  *)
(* of the file at that path divided by 1024.                               *)
(***************************************************************************)
C5_ResultIsPathAndSize ==
  \A c \in Calls :
    call[c].pc = "resolved" =>
      /\ call[c].result # None
      /\ call[c].result[1].outputPath = ExpectedResolved(call[c].outputPath)
      /\ files[call[c].result[1].outputPath] # None
      /\ call[c].result[1].compressedSizeKB.den > 0
      /\ call[c].result[1].compressedSizeKB.num * 1024
           = call[c].result[1].compressedSizeKB.den * files[call[c].result[1].outputPath][1]

\* A call with a relative output path resolved on a file of one and a half
\* kilobytes.
C5_Witness ==
  \E c \in Calls :
    /\ call[c].pc = "resolved"
    /\ call[c].outputPath = "out/r.bin"
    /\ files["/w/out/r.bin"] = Some(1536)

C7_Dimension(d) == IF d = None THEN "-1" ELSE NumStr(d[1])

(***************************************************************************)
(* C7.  compressVideo with codec H.264, H.265 or VP9 (H.264 when none is   *)
(* given): with options.scale supplied the command has the one filter      *)
(* -vf scale={w}:{h}, each supplied dimension as given and each missing    *)
(* one as -1; without options.scale it has no -vf.                         *)
(***************************************************************************)
C7_ScaleAsGiven ==
  \A c \in Calls :
    LET o == VideoOptionsOf(c)
        codec == IF o.codec = None THEN LIBX264 ELSE o.codec[1]
        argv == call[c].argv
    IN  (call[c].op = "compressVideo" /\ Spawned(c) /\ codec \in {LIBX264, LIBX265, VP9}) =>
          IF o.scale # None
          THEN FlagValues(argv, "-vf")
                 = {"scale=" \o C7_Dimension(o.scale[1].width) \o ":"
                      \o C7_Dimension(o.scale[1].height)}
          ELSE FlagCount(argv, "-vf") = 0

C9_BitrateDefault128k ==
  \A c \in Calls :
    (call[c].op = "compressMP3" /\ Spawned(c) /\ MP3OptionsOf(c).bitrate = None) =>
      FlagValues(call[c].argv, "-b:a") = {"128k"}

(***************************************************************************)
(* C10.  compressVideo called without options.crf builds a command whose   *)
(* -crf is 23.                                                             *)
(***************************************************************************)
C10_CrfDefault23 ==
  \A c \in Calls :
    (/\ call[c].op = "compressVideo"
     /\ Spawned(c)
     /\ VideoOptionsOf(c).crf = None
     /\ FlagCount(call[c].argv, "-crf") > 0) =>
      FlagValues(call[c].argv, "-crf") = {"23"}

(***************************************************************************)
(* C11.  compressPDF and compressVideo look for the input file before they *)
(* start a process: a call whose input file does not exist never starts    *)
(* one and is never resolved.                                              *)
(***************************************************************************)
C11_MissingInputNotSpawned ==
  \A c \in Calls :
    (call[c].op \in {"compressPDF", "compressVideo"} /\ ~call[c].env.inExists) =>
      (~Spawned(c) /\ call[c].pc \in {"accessIn", "rejected"})

\* What the log holds of call c.
EventsOf(c) == {i \in 1..Len(log) : log[i].call = c}

\* The message is that of a failed file system call.
IsIOError(message) == SubSeq(message, 1, 6) \in {"EACCES", "ENOENT"}

C13_MP3IOFailure ==
  \A c \in Calls :
    (/\ call[c].op = "compressMP3"
     /\ (~call[c].env.inReadable \/ ~call[c].env.outDirWritable)) =>
      (~Spawned(c) /\ call[c].pc \in {"accessIn", "accessOut", "rejected"})

\* The log entries of call c that record the event.
LogOf(c, event) == {i \in 1..Len(log) : log[i].call = c /\ log[i].event = event}

\* The one entry of call c that records the event.
LogAt(c, event) == CHOOSE i \in LogOf(c, event) : TRUE

\* What is at path p after the first n entries of the log: what the last
\* process to end there wrote.
ContentAfter(p, n) ==
  LET writes == {i \in 1..n : /\ log[i].event = "exit"
                              /\ log[i].path = p
                              /\ log[i].written # None}
  IN  IF writes = {} THEN None
      ELSE log[CHOOSE i \in writes : \A j \in writes : j <= i].written

GivenVideoOptions(c) ==
  IF call[c].options = None THEN NoVideoOptions ELSE call[c].options[1]

(***************************************************************************)
(* C17.  With codec GIF the command does not depend on crf, preset, fps or *)
(* scale: two compressVideo calls with the same paths and codec GIF run    *)
(* the same command, whatever their other options.                         *)
(***************************************************************************)
C17_GifIgnoresOptions ==
  \A c, d \in ConcCalls :
    (/\ call[c].op = "compressVideo" /\ call[d].op = "compressVideo"
     /\ Spawned(c) /\ Spawned(d)
     /\ GivenVideoOptions(c).codec = Some(GIF)
     /\ GivenVideoOptions(d).codec = Some(GIF)
     /\ call[c].inputPath = call[d].inputPath
     /\ call[c].outputPath = call[d].outputPath) =>
      (call[c].command = call[d].command /\ call[c].argv = call[d].argv)

C17_Witness ==
  \E c, d \in ConcCalls :
    /\ call[c].op = "compressVideo" /\ call[d].op = "compressVideo"
    /\ Spawned(c) /\ Spawned(d)
    /\ GivenVideoOptions(c).codec = Some(GIF)
    /\ GivenVideoOptions(d).codec = Some(GIF)
    /\ call[c].inputPath = call[d].inputPath
    /\ call[c].outputPath = call[d].outputPath
    /\ GivenVideoOptions(c).crf # GivenVideoOptions(d).crf
    /\ GivenVideoOptions(c).preset # GivenVideoOptions(d).preset
    /\ GivenVideoOptions(c).fps # GivenVideoOptions(d).fps
    /\ GivenVideoOptions(c).scale # GivenVideoOptions(d).scale
    /\ FlagCount(call[c].argv, "-loop") = 1

(***************************************************************************)
(* C18.  The command of compressVideo for a codec of the enumeration.      *)
(* libx264/libx265: -c:v {codec} -crf {crf} -preset {preset}, AAC audio at *)
(* 128k, -movflags +faststart.  VP9: -c:v libvpx-vp9 -crf {crf} -b:v 0,    *)
(* Opus audio at 128k, no -preset, no -movflags.  In both, -r {fps} is     *)
(* there exactly when the caller supplied fps.                             *)
(***************************************************************************)
C18_VideoCommandFlags ==
  \A c \in Calls :
    (/\ call[c].op = "compressVideo"
     /\ Spawned(c)
     /\ VideoOptionsOf(c).codec \in {None, Some(LIBX264), Some(LIBX265), Some(VP9)}) =>
      LET o == VideoOptionsOf(c)
          argv == call[c].argv
          One(flag) == FlagCount(argv, flag) = 1
          Is(flag, v) == One(flag) /\ FlagValues(argv, flag) = {v}
      IN  /\ IF o.crf = None THEN One("-crf") ELSE Is("-crf", NumStr(o.crf[1]))
          /\ Is("-b:a", "128k")
          /\ IF o.codec = Some(VP9)
             THEN /\ Is("-c:v", "libvpx-vp9")
                  /\ Is("-b:v", "0")
                  /\ Is("-c:a", "libopus")
                  /\ FlagCount(argv, "-preset") = 0
                  /\ FlagCount(argv, "-movflags") = 0
             ELSE /\ Is("-c:v", IF o.codec = None THEN "libx264" ELSE o.codec[1])
                  /\ IF o.preset = None THEN One("-preset")
                     ELSE Is("-preset", o.preset[1])
                  /\ Is("-c:a", "aac")
                  /\ Is("-movflags", "+faststart")
          /\ IF o.fps = None THEN FlagCount(argv, "-r") = 0
             ELSE Is("-r", NumStr(o.fps[1]))

\* The place of a call in its life, by the await it is at.
Rank(pc) ==
  CASE pc = "idle" -> 0
    [] pc = "accessIn" -> 1
    [] pc = "accessOut" -> 2
    [] pc = "exec" -> 3
    [] pc = "stat" -> 4
    [] pc \in {"resolved", "rejected"} -> 5

\* Every check the operation of call record r makes has passed.
ChecksPassed(r) ==
  CASE r.op \in ImageOps ->
         /\ Extension(r.inputPath) \in ImageExtensions
         /\ r.env.inReadable
         /\ r.env.outDirWritable
    [] r.op = "compressVideo" -> r.env.inExists
    [] r.op = "compressMP3" -> r.env.inExists /\ Extension(r.inputPath) = ".mp3"
    [] r.op = "compressPDF" -> TRUE

(***************************************************************************)
(* C16.  A call goes through validation, synthesis, execution and          *)
(* measurement in that order and never back.  It starts one process at     *)
(* most, and only when every check of its operation has passed; it stats   *)
(* the output only after exit status 0; once it has failed it starts no    *)
(* process and does nothing more.                                          *)
(***************************************************************************)
C16_StagesInOrder ==
  [][\A c \in Calls :
       /\ call'[c] # call[c] => Rank(call'[c].pc) > Rank(call[c].pc)
       /\ call'[c].spawned <= 1
       /\ call'[c].spawned > call[c].spawned => ChecksPassed(call'[c])
       /\ call'[c].pc \in {"exec", "stat", "resolved"} => call'[c].spawned = 1
       /\ (call'[c].pc \in {"stat", "resolved"} \/ LogOf(c, "stat")' # {}) =>
            call'[c].exit = Some("0")
       /\ Cardinality(LogOf(c, "spawn")') = call'[c].spawned
       /\ Cardinality(LogOf(c, "exit")') <= 1
       /\ Cardinality(LogOf(c, "stat")') <= 1
       /\ (call[c].error # None \/ call[c].exit \notin {None, Some("0")}) =>
            (call'[c] = call[c] /\ \A e \in {"spawn", "exit", "stat"} :
                                     LogOf(c, e)' = LogOf(c, e))]_vars

\* A call that has gone through every stage.
C16_Witness ==
  \E c \in Calls :
    /\ call[c].op \in ImageOps
    /\ call[c].pc = "resolved"
    /\ call[c].spawned = 1
    /\ LogOf(c, "spawn") # {} /\ LogOf(c, "exit") # {} /\ LogOf(c, "stat") # {}
    /\ LogAt(c, "spawn") < LogAt(c, "exit")
    /\ LogAt(c, "exit") < LogAt(c, "stat")

(***************************************************************************)
(* C15.  Whatever characters the paths hold (blanks, double quotes, other  *)
(* characters the shell acts on), the process gets the resolved input path *)
(* as exactly one argument and the resolved output path as exactly one     *)
(* argument (for Ghostscript, as the value of its one -sOutputFile=).      *)
(***************************************************************************)
C15_PathsAreSingleArguments ==
  \A c \in Calls :
    Spawned(c) =>
      /\ FlagCount(call[c].argv, call[c].rin) = 1
      /\ FlagCount(call[c].argv, IF call[c].op = "compressPDF"
                                 THEN "-sOutputFile=" \o call[c].rout
                                 ELSE call[c].rout) = 1

(***************************************************************************)
(* C19.  If every process exits and every file system call returns, a call *)
(* that has been made settles: it is resolved or rejected in the end, and  *)
(* once it is, its outcome never changes (it settles once).                *)
(***************************************************************************)
C19_SettlesOnce ==
  /\ \A c \in Calls : (call[c].pc # "idle") ~> Settled(c)
  /\ [][\A c \in Calls : Settled(c) => call'[c] = call[c]]_vars

\* A call that got as far as the stat of its output and was rejected there.
C19_Witness ==
  \E c \in Calls :
    /\ call[c].pc = "rejected"
    /\ call[c].exit = Some("0")
    /\ LogOf(c, "stat") # {}

====
